---- MODULE Spec2Model ----
(***************************************************************************)
(* Model of notes_parser: SermonAnalyser (src/src/analyser.py) working on  *)
(* its mutable line buffer self.lines, and the SideBySideComparison token  *)
(* (src/src/tokens.py) it builds.                                          *)
(*                                                                         *)
(* A line is a sequence of one-character strings, so that slicing,         *)
(* lower() and split("//", 1) are computed as Python computes them.        *)
(* Indices kept in the state (it, gi, items, comps) are Python's 0-based   *)
(* indices; At(buf, i) reads buf[i].                                       *)
(***************************************************************************)
EXTENDS Integers, Sequences, FiniteSets, TLC

VARIABLES
    lines,       \* self.lines, the shared buffer
    pc,          \* position of the running method
    op,          \* the method being run ("none" before the first call)
    outcome,     \* "none" while running, "ok" on return, else the exception
    ret,         \* the returned value: <<HeaderText>> or the list of comparisons
    errlines,    \* len(self.lines) as formatted into find_header's exception
    title,       \* find_header: local title
    speaker,     \* find_header: local speaker
    comps,       \* find_comparison: local comps, a list of [heading] + items
    it,          \* find_comparison: position of the enumerate() iterator
    items,       \* get_comp_items: local items
    gi,          \* get_comp_items: local i
    comp_objs,   \* find_comparison: local comp_objs
    g,           \* find_comparison: position in "for group in comps"
    k,           \* make_comp_obj: position in "for ln_ind in comp_lines[1:]"
    comparison,  \* make_comp_obj: <<>> or <<the object under construction>>
    lines0,      \* history: the buffer when the running call was entered
    ids,         \* history: for each line of the buffer, its index in lines0
    log          \* history: the calls completed before the running one

vars == <<lines, pc, op, outcome, ret, errlines, title, speaker, comps, it,
          items, gi, comp_objs, g, k, comparison, lines0, ids, log>>

----------------------------------------------------------------------------
(* Bounds *)

MaxLen == 4

MaxCalls == 2

----------------------------------------------------------------------------
(* Text *)

Blank == <<>>

NoSpeaker == <<"(", "n", "o", " ", "s", "p", "e", "a", "k", "e", "r", ")">>

\* The lines a buffer is drawn from: blank, general text, speaker lines in
\* two casings, headings and items with no, one and several dividers, and
\* the lone item marker.
LineSet ==
    { Blank,
      <<"b">>,
      <<"b", "y", "a">>,
      <<"B", "Y">>,
      <<":", ":", "a", "/", "/", "b">>,
      <<":", ":", "b", "/", "/", "a", "/", "/", "b">>,
      <<":", ":", "a">>,
      <<":", "a", "/", "/", "b">>,
      <<":", "b", "/", "/", "/", "a">>,
      <<":", "a">>,
      <<":">> }

\* The lines find_header tells apart: blank, speaker lines, and other text
\* of one, two and more characters.
HeaderLineSet ==
    { Blank,
      <<"b">>,
      <<"b", "y", "a">>,
      <<"B", "Y">>,
      <<":", "a">>,
      <<":", ":", "a", "/", "/", "b">> }

\* The lines find_comparison tells apart: all but the speaker lines.
ComparisonLineSet == LineSet \ { <<"b", "y", "a">>, <<"B", "Y">> }

\* The lines a sequence of calls tells apart: blank, general text, a speaker
\* line, a heading, an item and the lone item marker.
CallsLineSet ==
    { Blank,
      <<"b">>,
      <<"B", "Y">>,
      <<":", ":", "a", "/", "/", "b">>,
      <<":", "a", "/", "/", "b">>,
      <<":">> }

\* The lines that decide how a call ends: those of CallsLineSet, and a
\* heading and an item without divider.
OneCallLineSet == CallsLineSet \cup { <<":", ":", "a">>, <<":", "a">> }

\* the buffers of at most MaxLen lines drawn from S
Buffers(S) == UNION { [1..n -> S] : n \in 0..MaxLen }

Min(a, b) == IF a < b THEN a ELSE b

\* buf[i] for a 0-based i
At(buf, i) == buf[i + 1]

\* s[:n]
Prefix(s, n) == SubSeq(s, 1, Min(n, Len(s)))

\* s[n:]
Drop(s, n) == SubSeq(s, n + 1, Len(s))

\* str.lower() on one character
LowerChar(c) ==
    CASE c = "B" -> "b"
      [] c = "Y" -> "y"
      [] OTHER -> c

Lower(s) == [i \in 1..Len(s) |-> LowerChar(s[i])]

\* pop(i + 1) for pop(i): the element after the one meant, when there is one
Pop_Next(buf, i) ==
    IF i + 1 < Len(buf)
    THEN SubSeq(buf, 1, i + 1) \o SubSeq(buf, i + 3, Len(buf))
    ELSE SubSeq(buf, 1, i) \o SubSeq(buf, i + 2, Len(buf))

\* list.pop(i) for a 0-based i: the list without that element
Pop(buf, i) == SubSeq(buf, 1, i) \o SubSeq(buf, i + 2, Len(buf))

\* position (1-based) of the first "//" in s, 0 when there is none
FindDivider(s) ==
    LET hits == { i \in 1..(Len(s) - 1) : s[i] = "/" /\ s[i + 1] = "/" }
    IN  IF hits = {} THEN 0
        ELSE CHOOSE i \in hits : \A j \in hits : i <= j

\* split that pads a missing right part, as str.partition does
Split_Padded(s) ==
    LET d == FindDivider(s)
    IN  IF d = 0 THEN <<s, <<>>>>
        ELSE <<SubSeq(s, 1, d - 1), SubSeq(s, d + 2, Len(s))>>

\* s.split("//", 1)
Split(s) ==
    LET d == FindDivider(s)
    IN  IF d = 0 THEN <<s>>
        ELSE <<SubSeq(s, 1, d - 1), SubSeq(s, d + 2, Len(s))>>

----------------------------------------------------------------------------
(* Tokens *)

HeaderText(t, s) == [text |-> t, speaker |-> s]

SideBySideComparison(left_heading, right_heading) ==
    [left_head |-> left_heading, right_head |-> right_heading,
     left_content |-> <<>>, right_content |-> <<>>]

\* add_comp_pair appending both sides to the left column
add_comp_pair_LeftOnly(c, left_side, right_side) ==
    [c EXCEPT !.left_content = Append(Append(@, left_side), right_side)]

add_comp_pair(c, left_side, right_side) ==
    [c EXCEPT !.left_content = Append(@, left_side),
              !.right_content = Append(@, right_side)]

\* the assertion of SideBySideComparison.__str__
StrAssertion(c) == Len(c.left_content) = Len(c.right_content)

\* SideBySideComparison.__str__: the lines of the display, or the failed
\* assertion
Str(c) ==
    IF ~StrAssertion(c)
    THEN [raised |-> "AssertionError", output |-> <<>>]
    ELSE [raised |-> "none",
          output |-> <<<<"*">> \o c.left_head \o <<"*", " vs. ", "*">>
                          \o c.right_head \o <<"*">>>>
                     \o [i \in 1..Len(c.left_content) |->
                            c.left_content[i] \o <<" vs. ">>
                               \o c.right_content[i]]]

----------------------------------------------------------------------------
(* Calls *)

\* the state after __init__ has read a file whose lines are drawn from S
InitFrom(S) ==
    /\ lines \in Buffers(S)
    /\ pc = "idle"
    /\ op = "none"
    /\ outcome = "none"
    /\ ret = <<>>
    /\ errlines = -1
    /\ title = Blank
    /\ speaker = Blank
    /\ comps = <<>>
    /\ it = 0
    /\ items = <<>>
    /\ gi = 0
    /\ comp_objs = <<>>
    /\ g = 0
    /\ k = 0
    /\ comparison = <<>>
    /\ lines0 = lines
    /\ ids = [i \in 1..Len(lines) |-> i - 1]
    /\ log = <<>>

Init == InitFrom(LineSet)

InitHeader == InitFrom(HeaderLineSet)

InitComparison == InitFrom(ComparisonLineSet)

InitCalls == InitFrom(CallsLineSet)

InitOneCall == InitFrom(OneCallLineSet)

\* The record a completed call leaves in the history.
Completed ==
    [op |-> op, outcome |-> outcome, ret |-> ret, errlines |-> errlines,
     before |-> lines0, after |-> lines]

\* Entering a method: fresh locals, and the history variables restarted.
Enter(name, start) ==
    /\ pc \in {"idle", "done"}
    /\ Len(log) + (IF pc = "done" THEN 1 ELSE 0) < MaxCalls
    /\ log' = IF pc = "done" THEN Append(log, Completed) ELSE log
    /\ op' = name
    /\ pc' = start
    /\ outcome' = "none"
    /\ ret' = <<>>
    /\ errlines' = -1
    /\ title' = Blank
    /\ speaker' = Blank
    /\ comps' = <<>>
    /\ it' = 0
    /\ items' = <<>>
    /\ gi' = 0
    /\ comp_objs' = <<>>
    /\ g' = 0
    /\ k' = 0
    /\ comparison' = <<>>
    /\ lines0' = lines
    /\ ids' = [i \in 1..Len(lines) |-> i - 1]
    /\ UNCHANGED lines

\* A raise: the method is left with the exception and no value.
Raise(exc) ==
    /\ pc' = "done"
    /\ outcome' = exc
    /\ ret' = <<>>

----------------------------------------------------------------------------
(* find_header *)

\* find_header comparing without lower()
StartsWithBy_CaseSensitive(ln) == Prefix(ln, 2) = <<"b", "y">>

\* find_header slicing one character instead of two
StartsWithBy_OneChar(ln) == Lower(Prefix(ln, 1)) = <<"b">>

StartsWithBy(ln) == Lower(Prefix(ln, 2)) = <<"b", "y">>

CallFindHeader == Enter("find_header", "h_title")

\* one iteration of "while len(self.lines) > 0" of the title loop
TitleStep ==
    /\ pc = "h_title"
    /\ Len(lines) > 0
    /\ IF At(lines, 0) # Blank
       THEN /\ title' = At(lines, 0)
            /\ pc' = "h_speaker"
       ELSE UNCHANGED <<title, pc>>
    /\ lines' = Pop(lines, 0)
    /\ ids' = Pop(ids, 0)
    /\ UNCHANGED <<op, outcome, ret, errlines, speaker, comps, it, items, gi,
                   comp_objs, g, k, comparison, lines0, log>>

\* the title loop ends on an empty buffer
TitleExit ==
    /\ pc = "h_title"
    /\ Len(lines) = 0
    /\ pc' = "h_speaker"
    /\ UNCHANGED <<lines, op, outcome, ret, errlines, title, speaker, comps,
                   it, items, gi, comp_objs, g, k, comparison, lines0, ids,
                   log>>

\* one iteration of the speaker loop
SpeakerStep ==
    /\ pc = "h_speaker"
    /\ Len(lines) > 0
    /\ IF At(lines, 0) # Blank
       THEN IF StartsWithBy(At(lines, 0))
            THEN /\ speaker' = At(lines, 0)
                 /\ lines' = Pop(lines, 0)
                 /\ ids' = Pop(ids, 0)
                 /\ pc' = "h_check"
            ELSE /\ speaker' = NoSpeaker
                 /\ pc' = "h_check"
                 /\ UNCHANGED <<lines, ids>>
       ELSE /\ lines' = Pop(lines, 0)
            /\ ids' = Pop(ids, 0)
            /\ UNCHANGED <<speaker, pc>>
    /\ UNCHANGED <<op, outcome, ret, errlines, title, comps, it, items, gi,
                   comp_objs, g, k, comparison, lines0, log>>

\* the speaker loop ends on an empty buffer
SpeakerExit ==
    /\ pc = "h_speaker"
    /\ Len(lines) = 0
    /\ pc' = "h_check"
    /\ UNCHANGED <<lines, op, outcome, ret, errlines, title, speaker, comps,
                   it, items, gi, comp_objs, g, k, comparison, lines0, ids,
                   log>>

\* find_header raising only when both are missing ("and" for "or")
HeaderMissing_Both(t, s) == t = Blank /\ s = Blank

\* find_header also raising when only the placeholder was found
HeaderMissing_Placeholder(t, s) == t = Blank \/ s = Blank \/ s = NoSpeaker

\* title == "" or speaker == ""
HeaderMissing(t, s) == t = Blank \/ s = Blank

\* "confirm both have been found", then the return
HeaderReturn ==
    /\ pc = "h_check"
    /\ IF HeaderMissing(title, speaker)
       THEN /\ Raise("Exception")
            /\ errlines' = Len(lines)
       ELSE /\ pc' = "done"
            /\ outcome' = "ok"
            /\ ret' = <<HeaderText(title, speaker)>>
            /\ UNCHANGED errlines
    /\ UNCHANGED <<lines, op, title, speaker, comps, it, items, gi, comp_objs,
                   g, k, comparison, lines0, ids, log>>

HeaderNext ==
    \/ TitleStep
    \/ TitleExit
    \/ SpeakerStep
    \/ SpeakerExit
    \/ HeaderReturn

----------------------------------------------------------------------------
(* find_comparison, get_comp_items, make_comp_obj *)

\* find_comparison slicing one character instead of two
IsHeading_OneChar(ln) == Prefix(ln, 1) = <<":">>

\* ln[:2] == "::"
IsHeading(ln) == Prefix(ln, 2) = <<":", ":">>

CallFindComparison == Enter("find_comparison", "c_scan")

\* one step of "for i, ln in enumerate(self.lines)": the list iterator reads
\* the live list at its position; a heading enters get_comp_items(i + 1)
ScanStep ==
    /\ pc = "c_scan"
    /\ it < Len(lines)
    /\ IF IsHeading(At(lines, it))
       THEN /\ pc' = "c_gather"
            /\ gi' = it + 1
            /\ items' = <<>>
            /\ UNCHANGED it
       ELSE /\ it' = it + 1
            /\ UNCHANGED <<pc, gi, items>>
    /\ UNCHANGED <<lines, op, outcome, ret, errlines, title, speaker, comps,
                   comp_objs, g, k, comparison, lines0, ids, log>>

\* the iterator is exhausted: on to "create comparison objects"
ScanExit ==
    /\ pc = "c_scan"
    /\ it >= Len(lines)
    /\ pc' = "c_build"
    /\ comp_objs' = <<>>
    /\ g' = 0
    /\ UNCHANGED <<lines, op, outcome, ret, errlines, title, speaker, comps,
                   it, items, gi, k, comparison, lines0, ids, log>>

\* find_comparison putting each new group in front (insert(0, ...))
GatherReturn_Prepend ==
    /\ comps' = <<(<<it>> \o items)>> \o comps
    /\ it' = it + 1
    /\ pc' = "c_scan"

\* find_comparison resuming the scan after the line that ended the group
GatherReturn_SkipGroup ==
    /\ comps' = Append(comps, <<it>> \o items)
    /\ it' = gi + 1
    /\ pc' = "c_scan"

\* get_comp_items returns: comps.append([i] + items), and the scan goes on
GatherReturn ==
    /\ comps' = Append(comps, <<it>> \o items)
    /\ it' = it + 1
    /\ pc' = "c_scan"

\* get_comp_items without the pop: the blank line is met again and again
GatherStep_NoPop ==
    /\ pc = "c_gather"
    /\ gi < Len(lines)
    /\ LET ln == At(lines, gi)
       IN  IF ln = Blank
           THEN UNCHANGED <<lines, ids, pc, outcome, ret, comps, it, items, gi>>
           ELSE IF ln[1] = ":"
           THEN IF Len(ln) < 2
                THEN /\ Raise("IndexError")
                     /\ UNCHANGED <<lines, ids, comps, it, items, gi>>
                ELSE IF ln[2] # ":"
                THEN /\ items' = Append(items, gi)
                     /\ gi' = gi + 1
                     /\ UNCHANGED <<lines, ids, pc, outcome, ret, comps, it>>
                ELSE /\ GatherReturn
                     /\ UNCHANGED <<lines, ids, outcome, ret, items, gi>>
           ELSE /\ GatherReturn
                /\ UNCHANGED <<lines, ids, outcome, ret, items, gi>>
    /\ UNCHANGED <<op, errlines, title, speaker, comp_objs, g, k, comparison,
                   lines0, log>>

\* get_comp_items without "i -= 1": the index moves on after a pop
GatherStep_NoRetry ==
    /\ pc = "c_gather"
    /\ gi < Len(lines)
    /\ LET ln == At(lines, gi)
       IN  IF ln = Blank
           THEN /\ lines' = Pop(lines, gi)
                /\ ids' = Pop(ids, gi)
                /\ gi' = gi + 1
                /\ UNCHANGED <<pc, outcome, ret, comps, it, items>>
           ELSE IF ln[1] = ":"
           THEN IF Len(ln) < 2
                THEN /\ Raise("IndexError")
                     /\ UNCHANGED <<lines, ids, comps, it, items, gi>>
                ELSE IF ln[2] # ":"
                THEN /\ items' = Append(items, gi)
                     /\ gi' = gi + 1
                     /\ UNCHANGED <<lines, ids, pc, outcome, ret, comps, it>>
                ELSE /\ GatherReturn
                     /\ UNCHANGED <<lines, ids, outcome, ret, items, gi>>
           ELSE /\ GatherReturn
                /\ UNCHANGED <<lines, ids, outcome, ret, items, gi>>
    /\ UNCHANGED <<op, errlines, title, speaker, comp_objs, g, k, comparison,
                   lines0, log>>

\* one iteration of "while i < len(self.lines)" of get_comp_items
GatherStep ==
    /\ pc = "c_gather"
    /\ gi < Len(lines)
    /\ LET ln == At(lines, gi)
       IN  IF ln = Blank
           THEN \* pop(i); i -= 1; i += 1
                /\ lines' = Pop(lines, gi)
                /\ ids' = Pop(ids, gi)
                /\ UNCHANGED <<pc, outcome, ret, comps, it, items, gi>>
           ELSE IF ln[1] = ":"
           THEN IF Len(ln) < 2
                THEN \* self.lines[i][1] of a one-character line: IndexError
                     /\ Raise("IndexError")
                     /\ UNCHANGED <<lines, ids, comps, it, items, gi>>
                ELSE IF ln[2] # ":"
                THEN /\ items' = Append(items, gi)
                     /\ gi' = gi + 1
                     /\ UNCHANGED <<lines, ids, pc, outcome, ret, comps, it>>
                ELSE \* break
                     /\ GatherReturn
                     /\ UNCHANGED <<lines, ids, outcome, ret, items, gi>>
           ELSE \* break
                /\ GatherReturn
                /\ UNCHANGED <<lines, ids, outcome, ret, items, gi>>
    /\ UNCHANGED <<op, errlines, title, speaker, comp_objs, g, k, comparison,
                   lines0, log>>

\* the while loop of get_comp_items ends at the end of the buffer
GatherExit ==
    /\ pc = "c_gather"
    /\ gi >= Len(lines)
    /\ GatherReturn
    /\ UNCHANGED <<lines, op, outcome, ret, errlines, title, speaker, items,
                   gi, comp_objs, g, k, comparison, lines0, ids, log>>

\* make_comp_obj, up to the construction of the object: the heading line
\* without its "::" is split, and SideBySideComparison(*heads) needs two parts
BuildHeading ==
    /\ pc = "c_build"
    /\ g < Len(comps)
    /\ comparison = <<>>
    /\ LET comp_lines == At(comps, g)
           header_line == Drop(At(lines, comp_lines[1]), 2)
           heads == Split(header_line)
       IN  IF Len(heads) = 2
           THEN /\ comparison' = <<SideBySideComparison(heads[1], heads[2])>>
                /\ k' = 1
                /\ UNCHANGED <<pc, outcome, ret>>
           ELSE /\ Raise("TypeError")
                /\ UNCHANGED <<comparison, k>>
    /\ UNCHANGED <<lines, op, errlines, title, speaker, comps, it, items, gi,
                   comp_objs, g, lines0, ids, log>>

\* make_comp_obj: one iteration of "for ln_ind in comp_lines[1:]"
BuildItem ==
    /\ pc = "c_build"
    /\ g < Len(comps)
    /\ comparison # <<>>
    /\ k < Len(At(comps, g))
    /\ LET ln_ind == At(At(comps, g), k)
           parts == Split(Drop(At(lines, ln_ind), 1))
       IN  IF Len(parts) = 2
           THEN /\ comparison' =
                       <<add_comp_pair(comparison[1], parts[1], parts[2])>>
                /\ k' = k + 1
                /\ UNCHANGED <<pc, outcome, ret>>
           ELSE /\ Raise("TypeError")
                /\ UNCHANGED <<comparison, k>>
    /\ UNCHANGED <<lines, op, errlines, title, speaker, comps, it, items, gi,
                   comp_objs, g, lines0, ids, log>>

\* make_comp_obj returns: comp_objs.append(...)
BuildAppend ==
    /\ pc = "c_build"
    /\ g < Len(comps)
    /\ comparison # <<>>
    /\ k >= Len(At(comps, g))
    /\ comp_objs' = Append(comp_objs, comparison[1])
    /\ comparison' = <<>>
    /\ g' = g + 1
    /\ UNCHANGED <<lines, pc, op, outcome, ret, errlines, title, speaker,
                   comps, it, items, gi, k, lines0, ids, log>>

\* return comp_objs
ComparisonReturn ==
    /\ pc = "c_build"
    /\ g >= Len(comps)
    /\ pc' = "done"
    /\ outcome' = "ok"
    /\ ret' = comp_objs
    /\ UNCHANGED <<lines, op, errlines, title, speaker, comps, it, items, gi,
                   comp_objs, g, k, comparison, lines0, ids, log>>

ComparisonNext ==
    \/ ScanStep
    \/ ScanExit
    \/ GatherStep
    \/ GatherExit
    \/ BuildHeading
    \/ BuildItem
    \/ BuildAppend
    \/ ComparisonReturn

----------------------------------------------------------------------------
(* The two methods as functions of the buffer: what a call started on buf  *)
(* ends with. Each loop is the recursion of its iterations.                *)

RECURSIVE TitleLoop(_)
\* find_header: "find title"
TitleLoop(buf) ==
    IF Len(buf) = 0 THEN [lines |-> buf, title |-> Blank]
    ELSE IF At(buf, 0) # Blank
    THEN [lines |-> Pop(buf, 0), title |-> At(buf, 0)]
    ELSE TitleLoop(Pop(buf, 0))

RECURSIVE SpeakerLoop(_)
\* find_header: "find speaker"
SpeakerLoop(buf) ==
    IF Len(buf) = 0 THEN [lines |-> buf, speaker |-> Blank]
    ELSE IF At(buf, 0) # Blank
    THEN IF StartsWithBy(At(buf, 0))
         THEN [lines |-> Pop(buf, 0), speaker |-> At(buf, 0)]
         ELSE [lines |-> buf, speaker |-> NoSpeaker]
    ELSE SpeakerLoop(Pop(buf, 0))

find_header(buf) ==
    LET t == TitleLoop(buf)
        s == SpeakerLoop(t.lines)
    IN  IF HeaderMissing(t.title, s.speaker)
        THEN [outcome |-> "Exception", ret |-> <<>>,
              errlines |-> Len(s.lines), lines |-> s.lines]
        ELSE [outcome |-> "ok", ret |-> <<HeaderText(t.title, s.speaker)>>,
              errlines |-> -1, lines |-> s.lines]

RECURSIVE GatherLoop(_, _, _)
\* get_comp_items: the while loop from index i on, items gathered so far
GatherLoop(buf, i, its) ==
    IF i >= Len(buf) THEN [lines |-> buf, items |-> its, raised |-> "none"]
    ELSE LET ln == At(buf, i)
         IN  IF ln = Blank THEN GatherLoop(Pop(buf, i), i, its)
             ELSE IF ln[1] = ":"
             THEN IF Len(ln) < 2
                  THEN [lines |-> buf, items |-> its, raised |-> "IndexError"]
                  ELSE IF ln[2] # ":"
                  THEN GatherLoop(buf, i + 1, Append(its, i))
                  ELSE [lines |-> buf, items |-> its, raised |-> "none"]
             ELSE [lines |-> buf, items |-> its, raised |-> "none"]

get_comp_items(buf, start) == GatherLoop(buf, start, <<>>)

RECURSIVE ScanLoop(_, _, _)
\* find_comparison: the enumerate loop from index i on
ScanLoop(buf, i, cs) ==
    IF i >= Len(buf) THEN [lines |-> buf, comps |-> cs, raised |-> "none"]
    ELSE IF IsHeading(At(buf, i))
    THEN LET r == get_comp_items(buf, i + 1)
         IN  IF r.raised # "none"
             THEN [lines |-> r.lines, comps |-> cs, raised |-> r.raised]
             ELSE ScanLoop(r.lines, i + 1, Append(cs, <<i>> \o r.items))
    ELSE ScanLoop(buf, i + 1, cs)

RECURSIVE PairLoop(_, _, _, _)
\* make_comp_obj: the loop over comp_lines[1:], from position n on
PairLoop(buf, comp_lines, n, c) ==
    IF n >= Len(comp_lines) THEN [raised |-> "none", obj |-> <<c>>]
    ELSE LET parts == Split(Drop(At(buf, At(comp_lines, n)), 1))
         IN  IF Len(parts) # 2 THEN [raised |-> "TypeError", obj |-> <<>>]
             ELSE PairLoop(buf, comp_lines, n + 1,
                           add_comp_pair(c, parts[1], parts[2]))

make_comp_obj(buf, comp_lines) ==
    LET heads == Split(Drop(At(buf, comp_lines[1]), 2))
    IN  IF Len(heads) # 2 THEN [raised |-> "TypeError", obj |-> <<>>]
        ELSE PairLoop(buf, comp_lines, 1,
                      SideBySideComparison(heads[1], heads[2]))

RECURSIVE BuildLoop(_, _, _, _)
\* find_comparison: "create comparison objects", from group n on
BuildLoop(buf, cs, n, objs) ==
    IF n >= Len(cs) THEN [raised |-> "none", objs |-> objs]
    ELSE LET r == make_comp_obj(buf, At(cs, n))
         IN  IF r.raised # "none" THEN [raised |-> r.raised, objs |-> <<>>]
             ELSE BuildLoop(buf, cs, n + 1, Append(objs, r.obj[1]))

find_comparison(buf) ==
    LET sc == ScanLoop(buf, 0, <<>>)
    IN  IF sc.raised # "none"
        THEN [outcome |-> sc.raised, ret |-> <<>>, errlines |-> -1,
              lines |-> sc.lines]
        ELSE LET b == BuildLoop(sc.lines, sc.comps, 0, <<>>)
             IN  IF b.raised # "none"
                 THEN [outcome |-> b.raised, ret |-> <<>>, errlines |-> -1,
                       lines |-> sc.lines]
                 ELSE [outcome |-> "ok", ret |-> b.objs, errlines |-> -1,
                       lines |-> sc.lines]

----------------------------------------------------------------------------
(* Specifications *)

\* any sequence of at most MaxCalls calls on one buffer
Next ==
    \/ CallFindHeader
    \/ CallFindComparison
    \/ HeaderNext
    \/ ComparisonNext

Spec == Init /\ [][Next]_vars

\* any sequence of at most MaxCalls calls, on the lines calls tell apart
SpecCalls == InitCalls /\ [][Next]_vars

\* one call of find_header on a buffer as read from the file
FirstHeaderCall == pc = "idle" /\ CallFindHeader

NextHeader ==
    \/ FirstHeaderCall
    \/ HeaderNext

SpecHeader == InitHeader /\ [][NextHeader]_vars

\* one call of find_comparison on a buffer as read from the file
FirstComparisonCall == pc = "idle" /\ CallFindComparison

NextComparison ==
    \/ FirstComparisonCall
    \/ ComparisonNext

SpecComparison == InitComparison /\ [][NextComparison]_vars

\* one call of either method, run to its end: a method that has been entered
\* keeps taking steps until it returns or raises (sequential code, nothing
\* suspends it), hence the weak fairness of its steps
NextOneCall ==
    \/ FirstHeaderCall
    \/ FirstComparisonCall
    \/ HeaderNext
    \/ ComparisonNext

SpecOneCall == InitOneCall /\ [][NextOneCall]_vars /\ WF_vars(NextOneCall)

----------------------------------------------------------------------------
(* What the claims are stated in: the buffer at entry, read line by line *)

HeaderDone == op = "find_header" /\ pc = "done"

ComparisonDone == op = "find_comparison" /\ pc = "done"

RECURSIVE Ascending(_)
\* the members of a set of numbers, smallest first
Ascending(S) ==
    IF S = {} THEN <<>>
    ELSE LET m == CHOOSE x \in S : \A y \in S : x <= y
         IN  <<m>> \o Ascending(S \ {m})

Indices(buf) == 0..(Len(buf) - 1)

NonBlankIdx(buf) == { i \in Indices(buf) : At(buf, i) # Blank }

\* the non-blank lines of a buffer, in order
NonBlankLines(buf) ==
    LET idx == Ascending(NonBlankIdx(buf))
    IN  [n \in 1..Len(idx) |-> At(buf, idx[n])]

\* the lines of buf from 0-based index i on
From(buf, i) == SubSeq(buf, i + 1, Len(buf))

\* begins with "by" in any casing
ByLine(ln) == Len(ln) >= 2 /\ ln[1] \in {"b", "B"} /\ ln[2] \in {"y", "Y"}

\* begins with "::"
HeadingLine(ln) == Len(ln) >= 2 /\ ln[1] = ":" /\ ln[2] = ":"

\* first character ":", second character not ":"
ItemLine(ln) == Len(ln) >= 2 /\ ln[1] = ":" /\ ln[2] # ":"

DividerAt(s, i) == i >= 1 /\ i + 1 <= Len(s) /\ s[i] = "/" /\ s[i + 1] = "/"

HasDivider(s) == \E i \in 1..Len(s) : DividerAt(s, i)

\* l and r are what lies before and after the first "//" of s
FirstSplit(s, l, r) ==
    /\ DividerAt(s, Len(l) + 1)
    /\ \A i \in 1..Len(l) : ~DividerAt(s, i)
    /\ l = SubSeq(s, 1, Len(l))
    /\ r = SubSeq(s, Len(l) + 3, Len(s))

\* the headings of the buffer at entry
Headings0 == { h \in Indices(lines0) : HeadingLine(At(lines0, h)) }

\* the lines after heading h up to j are all blank or items
Gathered(h, j) ==
    \A m \in (h + 1)..j : At(lines0, m) = Blank \/ ItemLine(At(lines0, m))

\* the item lines that follow heading h up to the first line that is neither
\* blank nor an item
GroupItems(h) ==
    { j \in Indices(lines0) : j > h /\ ItemLine(At(lines0, j)) /\ Gathered(h, j) }

\* the blank lines lying between a heading and the first following line
\* that is neither blank nor an item
GroupBlanks ==
    { j \in Indices(lines0) :
        /\ At(lines0, j) = Blank
        /\ \E h \in Headings0 : h < j /\ Gathered(h, j) }

\* the lines of the buffer at entry that are no longer in the buffer
Removed == Indices(lines0) \ { ids[n] : n \in 1..Len(ids) }

\* token t is the comparison of heading h of the buffer at entry
TokenOf(t, h) ==
    LET its == Ascending(GroupItems(h))
    IN  /\ FirstSplit(Drop(At(lines0, h), 2), t.left_head, t.right_head)
        /\ Len(t.left_content) = Len(its)
        /\ Len(t.right_content) = Len(its)
        /\ \A n \in 1..Len(its) :
              FirstSplit(Drop(At(lines0, its[n]), 1),
                         t.left_content[n], t.right_content[n])

\* the index in the buffer at entry of the line now at 0-based index i
Origin(i) == At(ids, i)

----------------------------------------------------------------------------
(* C1 *)

\* C1: when find_comparison succeeds, the result holds exactly one token per
\* line beginning with "::", in the order of those lines; the content pairs
\* of each token come, in order, from exactly the item lines that follow its
\* heading up to the first line that is neither blank nor an item; and no
\* line is recorded for two groups.
C1_OneTokenPerHeading ==
    (ComparisonDone /\ outcome = "ok") =>
        LET hs == Ascending(Headings0)
        IN  /\ Len(ret) = Len(hs)
            /\ Len(comps) = Len(hs)
            /\ \A n \in 1..Len(hs) :
                  /\ TokenOf(ret[n], hs[n])
                  /\ Origin(comps[n][1]) = hs[n]
                  /\ [m \in 1..(Len(comps[n]) - 1) |-> Origin(comps[n][m + 1])]
                        = Ascending(GroupItems(hs[n]))
            /\ \A n, m \in 1..Len(comps) :
                  n # m => \A a \in 1..Len(comps[n]), b \in 1..Len(comps[m]) :
                              comps[n][a] # comps[m][b]

\* two headings, the first with an item, after a successful call
C1_Witness ==
    /\ ComparisonDone
    /\ outcome = "ok"
    /\ Len(ret) = 2
    /\ Len(ret[1].left_content) = 1
    /\ ret[1] # ret[2]

----------------------------------------------------------------------------
(* C2 *)

\* C2: when the first non-blank line is T and the next non-blank line L
\* begins with "by" in any casing, find_header returns {title: T, speaker: L}
\* and leaves exactly the lines that followed L.
C2_SpeakerConsumed ==
    (HeaderDone /\ Cardinality(NonBlankIdx(lines0)) >= 2) =>
        LET nb == Ascending(NonBlankIdx(lines0))
            T == At(lines0, nb[1])
            L == At(lines0, nb[2])
        IN  ByLine(L) =>
               /\ outcome = "ok"
               /\ ret = <<[text |-> T, speaker |-> L]>>
               /\ lines = From(lines0, nb[2] + 1)

\* a call that returned an upper-case speaker line found after a blank line,
\* with a line left behind it
C2_Witness ==
    /\ HeaderDone
    /\ outcome = "ok"
    /\ ret[1].speaker = <<"B", "Y">>
    /\ Len(lines0) - Len(lines) >= 3
    /\ Len(lines) >= 1

----------------------------------------------------------------------------
(* C3 *)

\* C3: when the first non-blank line is T and the next non-blank line L does
\* not begin with "by", find_header returns {title: T, speaker: "(no
\* speaker)"} and L is not popped: L is at index 0 and the lines after it
\* are unchanged.
C3_NoSpeakerKeepsLine ==
    (HeaderDone /\ Cardinality(NonBlankIdx(lines0)) >= 2) =>
        LET nb == Ascending(NonBlankIdx(lines0))
            T == At(lines0, nb[1])
            L == At(lines0, nb[2])
        IN  ~ByLine(L) =>
               /\ outcome = "ok"
               /\ ret = <<[text |-> T, speaker |-> NoSpeaker]>>
               /\ lines = From(lines0, nb[2])
               /\ At(lines, 0) = L

\* a call that returned the placeholder and left the one-character line "b",
\* and a line after it, in the buffer
C3_Witness ==
    /\ HeaderDone
    /\ outcome = "ok"
    /\ ret[1].speaker = NoSpeaker
    /\ Len(lines) >= 2
    /\ At(lines, 0) = <<"b">>

----------------------------------------------------------------------------
(* C4 *)

\* C4: find_header fails if and only if the buffer holds fewer than two
\* non-blank lines; otherwise it returns a header whose title and speaker
\* are both non-empty.
C4_FailsIffFewerThanTwo ==
    HeaderDone =>
        /\ outcome \in {"ok", "Exception"}
        /\ outcome = "Exception" <=> Cardinality(NonBlankIdx(lines0)) < 2
        /\ outcome = "Exception" => ret = <<>>
        /\ outcome = "ok" =>
              /\ Len(ret) = 1
              /\ ret[1].text # Blank
              /\ ret[1].speaker # Blank

\* a failed call on a buffer whose only non-blank line is the title
C4_Witness ==
    /\ HeaderDone
    /\ outcome = "Exception"
    /\ Cardinality(NonBlankIdx(lines0)) = 1
    /\ Len(lines0) >= 2

----------------------------------------------------------------------------
(* C5 *)

Range(q) == { q[n] : n \in 1..Len(q) }

\* some heading of the buffer at entry, or some item line of one of its
\* groups, has no "//" after its marker
MalformedInput ==
    \/ \E h \in Headings0 : ~HasDivider(Drop(At(lines0, h), 2))
    \/ \E h \in Headings0 : \E j \in GroupItems(h) :
          ~HasDivider(Drop(At(lines0, j), 1))

----------------------------------------------------------------------------
(* C6 *)

\* C6: a non-blank candidate line shorter than two characters met while
\* gathering is treated as not matching the item marker: it ends the group,
\* find_comparison raises no out-of-range fault, and a buffer whose headings
\* and items are otherwise well formed is extracted.
C6_ShortLineEndsGroup ==
    ComparisonDone =>
        /\ outcome # "IndexError"
        /\ ~MalformedInput => outcome = "ok"

----------------------------------------------------------------------------
(* C7 *)

\* C7: every comparison under construction, built or returned has as many
\* left as right content entries, after every add_comp_pair, and rendering
\* it does not fail.
C7_EqualContentLengths ==
    op = "find_comparison" =>
        \A c \in Range(comparison) \cup Range(comp_objs) \cup Range(ret) :
           /\ Len(c.left_content) = Len(c.right_content)
           /\ Str(c).raised = "none"
           /\ Len(Str(c).output) = 1 + Len(c.left_content)

\* a returned token with two content pairs
C7_Witness ==
    /\ ComparisonDone
    /\ outcome = "ok"
    /\ \E c \in Range(ret) : Len(c.left_content) >= 2

----------------------------------------------------------------------------
(* C8 *)

\* C8: a heading with no qualifying item line (followed directly by a line
\* that is neither blank nor an item, by another heading, by blank lines
\* only, or by the end of the buffer) yields a token with its parsed headings
\* and empty contents, and is not an error.
C8_EmptyGroupIsValid ==
    (ComparisonDone /\ ~MalformedInput) =>
        LET hs == Ascending(Headings0)
        IN  \A n \in 1..Len(hs) :
               GroupItems(hs[n]) = {} =>
                  /\ outcome = "ok"
                  /\ Len(ret) = Len(hs)
                  /\ ret[n].left_content = <<>>
                  /\ ret[n].right_content = <<>>
                  /\ FirstSplit(Drop(At(lines0, hs[n]), 2),
                                ret[n].left_head, ret[n].right_head)

----------------------------------------------------------------------------
(* C9 *)

\* C9: find_comparison never removes, reorders or alters a non-blank line;
\* the only lines it removes are blank lines lying between a heading and the
\* first following line that is neither blank nor an item, and, unless the
\* out-of-range fault cut the gathering short, it has removed all of those
\* when it ends; blank lines elsewhere stay.
C9_OnlyGroupBlanksRemoved ==
    op = "find_comparison" =>
        /\ \A n \in 1..(Len(ids) - 1) : ids[n] < ids[n + 1]
        /\ lines = [n \in 1..Len(ids) |-> At(lines0, ids[n])]
        /\ NonBlankLines(lines) = NonBlankLines(lines0)
        /\ Removed \subseteq GroupBlanks
        /\ (pc = "done" /\ outcome # "IndexError") => Removed = GroupBlanks

\* a successful call that removed a blank line and left another blank line
\* in the buffer
C9_Witness ==
    /\ ComparisonDone
    /\ outcome = "ok"
    /\ Removed # {}
    /\ \E i \in Indices(lines) : At(lines, i) = Blank

----------------------------------------------------------------------------
(* C10 *)

HeadingsNow == { i \in Indices(lines) : HeadingLine(At(lines, i)) }

\* the headings found so far: those recorded in comps, and the one whose
\* items are being gathered
Discovered == Len(comps) + (IF pc = "c_gather" THEN 1 ELSE 0)

\* C10 as stated: whenever find_comparison removes a line, every heading of
\* the buffer has already been found.
C10_DiscoveryBeforeRemoval ==
    [][(op = "find_comparison" /\ lines' # lines)
          => Discovered = Cardinality(HeadingsNow)]_vars

RecordedHeadings == [n \in 1..Len(comps) |-> comps[n][1]]

RecordedIndices == UNION { Range(comps[n]) : n \in 1..Len(comps) }

\* while scanning, the recorded headings are exactly the headings before the
\* iterator; once the scan has ended, they are all the headings
C10_ScanInvariant ==
    op = "find_comparison" =>
        /\ pc \in {"c_scan", "c_gather"} =>
              RecordedHeadings = Ascending({ i \in HeadingsNow : i < it })
        /\ pc = "c_gather" => (it \in HeadingsNow /\ gi > it)
        /\ (pc = "c_build" \/ (pc = "done" /\ outcome # "IndexError")) =>
              RecordedHeadings = Ascending(HeadingsNow)

\* a step that changes the buffer removes the one blank line at gi, during
\* the gathering for the heading at it, beyond every index recorded so far
C10_RemovalStep ==
    lines' # lines =>
        /\ pc = "c_gather"
        /\ pc' = "c_gather"
        /\ At(lines, gi) = Blank
        /\ lines' = [n \in 1..(Len(lines) - 1) |->
                        IF n <= gi THEN lines[n] ELSE lines[n + 1]]
        /\ gi > it
        /\ \A i \in RecordedIndices \cup Range(items) : i < gi
        /\ comps' = comps
        /\ comp_objs = <<>>

\* C10 as amended: discovery and gathering are interleaved in one pass. The
\* items of a heading are gathered, and the blank lines among them removed,
\* as soon as the scan reaches that heading and before it looks for the next
\* one; every removal is of a blank line beyond the heading in progress and
\* beyond every recorded index; the headings before the scan position are
\* recorded at any time, and all headings are recorded, and all removals
\* done, before the first token is built.
C10_InterleavedDiscovery ==
    /\ []C10_ScanInvariant
    /\ [][C10_RemovalStep]_vars

\* a second heading being gathered after a blank line of the first
\* heading's group has been removed
C10_Witness ==
    /\ op = "find_comparison"
    /\ pc = "c_gather"
    /\ Len(comps) >= 1
    /\ \E r \in Removed : r < Origin(it)

----------------------------------------------------------------------------
(* C11 *)

\* the indices find_comparison and get_comp_items hold at this point: those
\* recorded in comps, the items gathered so far, and the heading in progress
HeldIndices ==
    RecordedIndices \cup Range(items)
        \cup (IF pc = "c_gather" THEN {it} ELSE {})

\* every held index addresses a line of the kind it was recorded as, and
\* once the scan has ended the recorded headings are all the headings of the
\* buffer at entry, none skipped, each group holding exactly its item lines
C11_Addressed ==
    (op = "find_comparison" /\ outcome \in {"none", "ok", "TypeError"}) =>
        /\ \A n \in 1..Len(comps) :
              /\ HeadingLine(At(lines, comps[n][1]))
              /\ \A m \in 2..Len(comps[n]) : ItemLine(At(lines, comps[n][m]))
        /\ \A n \in 1..Len(items) : ItemLine(At(lines, items[n]))
        /\ pc \in {"c_build", "done"} =>
              /\ [n \in 1..Len(comps) |-> Origin(comps[n][1])]
                    = Ascending(Headings0)
              /\ \A n \in 1..Len(comps) :
                    { Origin(comps[n][m]) : m \in 2..Len(comps[n]) }
                       = GroupItems(Origin(comps[n][1]))

\* a step of a running call leaves every held index on the line it was
\* recorded for, and removes a line only beyond every held index
C11_StableStep ==
    (op = "find_comparison" /\ op' = "find_comparison" /\ pc # "done") =>
        /\ \A i \in HeldIndices :
              /\ At(ids', i) = At(ids, i)
              /\ At(lines', i) = At(lines, i)
        /\ lines' # lines =>
              \A i \in HeldIndices : \A r \in Removed' \ Removed :
                 Origin(i) < r

\* C11: when make_comp_obj reads the buffer, every recorded heading index
\* still addresses the "::" line it was recorded for and every recorded item
\* index the item line it was recorded for; no blank line is removed at or
\* below an index already recorded, and the scan skips no heading.
C11_IndexStability ==
    /\ []C11_Addressed
    /\ [][C11_StableStep]_vars

\* token building begins on two recorded groups, the first with an item,
\* after a blank line has been removed
C11_Witness ==
    /\ op = "find_comparison"
    /\ pc = "c_build"
    /\ g = 0
    /\ Len(comps) = 2
    /\ Len(comps[1]) = 2
    /\ Removed # {}

----------------------------------------------------------------------------
(* C12 *)

\* the call completed just before the running one
Previous == log[Len(log)]

AfterFailedHeader ==
    /\ log # <<>>
    /\ Previous.op = "find_header"
    /\ Previous.outcome = "Exception"

\* C12: whenever find_header fails the whole buffer has been consumed: the
\* buffer is empty, the count of lines in the failure is 0, and a following
\* find_comparison on the same buffer returns an empty sequence.
C12_FailureConsumesAll ==
    /\ (HeaderDone /\ outcome = "Exception") =>
          (lines = <<>> /\ errlines = 0)
    /\ (ComparisonDone /\ AfterFailedHeader) =>
          /\ Previous.after = <<>>
          /\ Previous.errlines = 0
          /\ lines0 = <<>>
          /\ outcome = "ok"
          /\ ret = <<>>
          /\ lines = <<>>

\* find_comparison has returned after a find_header that failed on a buffer
\* of a title and further lines
C12_Witness ==
    /\ ComparisonDone
    /\ AfterFailedHeader
    /\ Len(Previous.before) >= 3
    /\ NonBlankIdx(Previous.before) # {}

----------------------------------------------------------------------------
(* C13 *)

\* what the running call has ended with
Ended == [outcome |-> outcome, ret |-> ret, errlines |-> errlines,
          lines |-> lines]

\* a completed call's end, from its record in the history
EndOf(c) == [outcome |-> c.outcome, ret |-> c.ret, errlines |-> c.errlines,
             lines |-> c.after]

\* the Header outcome, the Comparison outcome and the final buffer of two
\* calls, given what each ended with and which ended last
Both(h, c, last) ==
    [header |-> <<h.outcome, h.ret, h.errlines>>,
     tokens |-> <<c.outcome, c.ret>>,
     final |-> last.lines]

\* find_header then find_comparison on buf
HeaderThenComparison(buf) ==
    LET h == find_header(buf)
        c == find_comparison(h.lines)
    IN  Both(h, c, c)

\* find_comparison then find_header on buf
ComparisonThenHeader(buf) ==
    LET c == find_comparison(buf)
        h == find_header(c.lines)
    IN  Both(h, c, h)

\* the first non-blank line of buf, if any, does not begin with "::"
TitleNotHeading(buf) ==
    NonBlankIdx(buf) # {} =>
        ~HeadingLine(At(buf, Ascending(NonBlankIdx(buf))[1]))

\* two calls have been made, one of each method
TwoCallsDone ==
    /\ pc = "done"
    /\ Len(log) = 1
    /\ log[1].op # op

\* what the two calls made ended with
Made ==
    IF op = "find_comparison"
    THEN Both(EndOf(log[1]), Ended, Ended)
    ELSE Both(Ended, EndOf(log[1]), Ended)

\* C13: on a buffer whose first non-blank line does not begin with "::" and
\* on which find_comparison succeeds, find_header then find_comparison gives
\* the same Header outcome, the same Comparison tokens and the same final
\* buffer as find_comparison then find_header. (Every call made ends as the
\* method's function of its entry buffer says.)
C13_ExtractorsCommute ==
    /\ pc = "done" =>
          Ended = (IF op = "find_header" THEN find_header(lines0)
                   ELSE find_comparison(lines0))
    /\ TwoCallsDone =>
          LET B == log[1].before
          IN  (TitleNotHeading(B) /\ find_comparison(B).outcome = "ok") =>
                 /\ Made = HeaderThenComparison(B)
                 /\ Made = ComparisonThenHeader(B)

\* find_header has returned a header after a find_comparison that removed a
\* blank line and returned a token, on a buffer whose title is an item line
C13_Witness ==
    /\ TwoCallsDone
    /\ op = "find_header"
    /\ outcome = "ok"
    /\ ret[1].text = <<":", "a", "/", "/", "b">>
    /\ log[1].outcome = "ok"
    /\ Len(log[1].ret) = 1
    /\ Len(log[1].after) < Len(log[1].before)

----------------------------------------------------------------------------
(* C14 *)

AfterComparisonOk ==
    /\ log # <<>>
    /\ Previous.op = "find_comparison"
    /\ Previous.outcome = "ok"

AfterHeaderOk ==
    /\ log # <<>>
    /\ Previous.op = "find_header"
    /\ Previous.outcome = "ok"

\* no two non-blank lines of buf are equal
DistinctLines(buf) ==
    \A i, j \in NonBlankIdx(buf) : i # j => At(buf, i) # At(buf, j)

\* C14: a find_comparison called right after a successful find_comparison
\* removes no line at any step and returns the same tokens; a find_header
\* called right after a successful find_header starts on a shorter buffer
\* and, the non-blank lines being distinct, does not return the first
\* header.
C14_ComparisonIdempotent ==
    /\ (op = "find_comparison" /\ AfterComparisonOk) =>
          /\ lines0 = Previous.after
          /\ lines = lines0
          /\ pc = "done" => (outcome = "ok" /\ ret = Previous.ret)
    /\ (HeaderDone /\ AfterHeaderOk) =>
          /\ lines0 = Previous.after
          /\ Len(lines0) < Len(Previous.before)
          /\ (outcome = "ok" /\ DistinctLines(Previous.before)) =>
                ret # Previous.ret

\* a second find_comparison has returned after a first one that removed a
\* blank line and returned a token with a content pair
C14_Witness ==
    /\ ComparisonDone
    /\ AfterComparisonOk
    /\ Len(Previous.after) < Len(Previous.before)
    /\ Len(ret) >= 1
    /\ Len(ret[1].left_content) >= 1

----------------------------------------------------------------------------
(* C15 *)

\* what each kind of step of a running call does: an iteration of a header
\* loop removes a line or leaves the loop; an iteration of the gathering
\* loop removes the blank line at i, keeping i, or advances i, or leaves the
\* loop; the scan never moves back and each heading's gathering ends with
\* the scan one line further in a buffer that is no longer; building
\* advances through the groups and their items
C15_Step ==
    /\ (pc \in {"h_title", "h_speaker"} /\ pc' = pc) =>
          Len(lines') < Len(lines)
    /\ (pc = "c_gather" /\ pc' = "c_gather") =>
          \/ Len(lines') < Len(lines) /\ gi' = gi
          \/ lines' = lines /\ gi' > gi
    /\ (pc = "c_scan" /\ pc' = "c_scan") => (lines' = lines /\ it' > it)
    /\ (pc = "c_scan" /\ pc' = "c_gather") => (lines' = lines /\ it' = it)
    /\ (pc = "c_gather" /\ pc' = "c_scan") => (lines' = lines /\ it' > it)
    /\ (pc \in {"c_scan", "c_gather"} /\ pc' \in {"c_scan", "c_gather"}) =>
          Len(lines') - it' <= Len(lines) - it
    /\ (pc = "c_build" /\ pc' = "c_build") =>
          /\ lines' = lines
          /\ \/ g' > g
             \/ g' = g /\ comparison = <<>> /\ comparison' # <<>>
             \/ g' = g /\ comparison # <<>> /\ k' > k

\* C15: find_header and find_comparison terminate on every finite buffer:
\* every step of their loops removes a line, advances an index or leaves the
\* loop, and every call made ends.
C15_Terminates ==
    /\ [][C15_Step]_vars
    /\ <>(pc = "done")

\* a find_comparison has ended after removing two blank lines at the same
\* index and gathering an item
C15_Witness ==
    /\ ComparisonDone
    /\ Cardinality(Removed) >= 2
    /\ Len(comps) >= 1
    /\ Len(comps[1]) >= 2

====
